---- MODULE Spec2Model ----
(***************************************************************************)
(* Othello: the rules engine (legal moves, flips, move application) and    *)
(* the classic alpha-beta opponent, modelled from the JavaScript sources.  *)
(***************************************************************************)
EXTENDS Integers, Sequences, FiniteSets, TLC

(***************************************************************************)
(* Program constants                                                       *)
(***************************************************************************)
EMPTY == 0
BLACK == 1
WHITE == 2
BOARD_SIZE == 8

DIRECTIONS ==
    << <<-1, -1>>, <<-1, 0>>, <<-1, 1>>,
       <<0, -1>>,             <<0, 1>>,
       <<1, -1>>,  <<1, 0>>,  <<1, 1>> >>

\* JavaScript's Infinity: only compared with, and replaced by, scores.  Every
\* score is bounded by the sum of the table's magnitudes plus 5 * 64.
Infinity == 1000000

\* The value of a missing property (result.move of a leaf) and of null.
undefined == [none |-> "undefined"]
null == [none |-> "null"]

Rows == 0 .. (BOARD_SIZE - 1)
Players == {BLACK, WHITE}

boardValueTable ==
    << << 30, -12,  0, -1, -1,  0, -12,  30>>,
       <<-12, -15, -3, -3, -3, -3, -15, -12>>,
       <<  0,  -3,  0, -1, -1,  0,  -3,   0>>,
       << -1,  -3, -1, -1, -1, -1,  -3,  -1>>,
       << -1,  -3, -1, -1, -1, -1,  -3,  -1>>,
       <<  0,  -3,  0, -1, -1,  0,  -3,   0>>,
       <<-12, -15, -3, -3, -3, -3, -15, -12>>,
       << 30, -12,  0, -1, -1,  0, -12,  30>> >>

(***************************************************************************)
(* Rules engine                                                            *)
(***************************************************************************)
\* const opponent = player === BLACK ? WHITE : BLACK
Opponent(player) == IF player = BLACK THEN WHITE ELSE BLACK

\* Array(BOARD_SIZE).fill(0).map(() => Array(BOARD_SIZE).fill(EMPTY))
EmptyBoard == [r \in Rows |-> [c \in Rows |-> EMPTY]]

\* newBoard[row][col] = value on a copy of the board
SetCell(b, row, col, value) == [b EXCEPT ![row][col] = value]

\* Mutant of InitBoard: the colours of the four centre pieces exchanged.
InitBoardSwapped ==
    SetCell(SetCell(SetCell(SetCell(EmptyBoard, 3, 3, BLACK), 4, 4, BLACK),
                    3, 4, WHITE), 4, 3, WHITE)

\* The board initGame sets up.
InitBoard ==
    SetCell(SetCell(SetCell(SetCell(EmptyBoard, 3, 3, WHITE), 4, 4, WHITE),
                    3, 4, BLACK), 4, 3, BLACK)

\* Mutant of ScanLine: a line that runs into the edge of the board counts.
RECURSIVE ScanLineEdgeCounts(_, _, _, _, _, _)
ScanLineEdgeCounts(targetBoard, player, r, c, dir, currentLine) ==
    IF r \in Rows /\ c \in Rows
    THEN IF targetBoard[r][c] = Opponent(player)
         THEN ScanLineEdgeCounts(targetBoard, player, r + dir[1], c + dir[2], dir,
                                 Append(currentLine, [row |-> r, col |-> c]))
         ELSE IF targetBoard[r][c] = player
              THEN currentLine
              ELSE <<>>
    ELSE currentLine

\* The while loop of getFlippablePieces along the direction dir, from (r, c):
\* the line collected when the scan stops on a cell of player, nothing when
\* it leaves the board or stops on another cell.
RECURSIVE ScanLine(_, _, _, _, _, _)
ScanLine(targetBoard, player, r, c, dir, currentLine) ==
    IF r \in Rows /\ c \in Rows
    THEN IF targetBoard[r][c] = Opponent(player)
         THEN ScanLine(targetBoard, player, r + dir[1], c + dir[2], dir,
                       Append(currentLine, [row |-> r, col |-> c]))
         ELSE IF targetBoard[r][c] = player
              THEN currentLine
              ELSE <<>>
    ELSE <<>>

\* The lines of the eight directions: the scan of a direction starts on the
\* cell next to (row, col).
Lines(targetBoard, player, row, col) ==
    [d \in DOMAIN DIRECTIONS |->
        ScanLine(targetBoard, player, row + DIRECTIONS[d][1], col + DIRECTIONS[d][2],
                 DIRECTIONS[d], <<>>)]

\* DIRECTIONS.forEach(...): piecesToFlip = piecesToFlip.concat(currentLine),
\* in the order of DIRECTIONS.
getFlippablePieces(targetBoard, player, row, col) ==
    LET line == Lines(targetBoard, player, row, col)
    IN  line[1] \o line[2] \o line[3] \o line[4] \o line[5] \o line[6] \o line[7] \o line[8]

\* Mutant of LoopCells: the loops nested the other way round, c outer.
LoopCellsColumnMajor ==
    [k \in 1 .. (BOARD_SIZE * BOARD_SIZE) |->
        [row |-> (k - 1) % BOARD_SIZE, col |-> (k - 1) \div BOARD_SIZE]]

\* The cells in the order of the nested loops: r outer, c inner.
LoopCells ==
    [k \in 1 .. (BOARD_SIZE * BOARD_SIZE) |->
        [row |-> (k - 1) \div BOARD_SIZE, col |-> (k - 1) % BOARD_SIZE]]

\* Mutant of IsPushed: the test of the cell being EMPTY left out.
IsPushedAnyCell(targetBoard, player, m) ==
    Len(getFlippablePieces(targetBoard, player, m.row, m.col)) > 0

\* The test of the inner loop body of getValidMoves.
IsPushed(targetBoard, player, m) ==
    /\ targetBoard[m.row][m.col] = EMPTY
    /\ Len(getFlippablePieces(targetBoard, player, m.row, m.col)) > 0

getValidMoves(targetBoard, player) ==
    IF player = 0
    THEN <<>>
    ELSE SelectSeq(LoopCells, LAMBDA m : IsPushed(targetBoard, player, m))

\* validMoves.some(move => move.row === row && move.col === col)
isValidMove(targetBoard, player, row, col) ==
    LET validMoves == getValidMoves(targetBoard, player)
    IN  \E i \in DOMAIN validMoves : validMoves[i] = [row |-> row, col |-> col]

\* Mutant of FlipAll: the loop stops one piece early.
RECURSIVE FlipAllOffByOne(_, _, _, _)
FlipAllOffByOne(newBoard, piecesToFlip, i, player) ==
    IF i >= Len(piecesToFlip)
    THEN newBoard
    ELSE FlipAllOffByOne(SetCell(newBoard, piecesToFlip[i].row, piecesToFlip[i].col, player),
                         piecesToFlip, i + 1, player)

\* piecesToFlip.forEach(p => newBoard[p.row][p.col] = player)
RECURSIVE FlipAll(_, _, _, _)
FlipAll(newBoard, piecesToFlip, i, player) ==
    IF i > Len(piecesToFlip)
    THEN newBoard
    ELSE FlipAll(SetCell(newBoard, piecesToFlip[i].row, piecesToFlip[i].col, player),
                 piecesToFlip, i + 1, player)

\* The guard of the early return of getResultingBoard.
ReturnsNull(piecesToFlip, originalBoard, row, col) ==
    Len(piecesToFlip) = 0 /\ originalBoard[row][col] = EMPTY

\* Mutant of getResultingBoard: newBoard[row][col] = player left out.
getResultingBoardNoPlace(originalBoard, player, row, col) ==
    LET piecesToFlip == getFlippablePieces(originalBoard, player, row, col)
    IN  IF ReturnsNull(piecesToFlip, originalBoard, row, col)
        THEN null
        ELSE FlipAll(originalBoard, piecesToFlip, 1, player)

getResultingBoard(originalBoard, player, row, col) ==
    LET piecesToFlip == getFlippablePieces(originalBoard, player, row, col)
    IN  IF ReturnsNull(piecesToFlip, originalBoard, row, col)
        THEN null
        ELSE FlipAll(SetCell(originalBoard, row, col, player), piecesToFlip, 1, player)

(***************************************************************************)
(* Classic AI                                                              *)
(***************************************************************************)
\* Mutant of CellScore: the pieces of the opponent are not subtracted.
CellScoreOwnOnly(targetBoard, player, r, c) ==
    IF targetBoard[r][c] = player
    THEN boardValueTable[r + 1][c + 1]
    ELSE 0

\* boardPositionScore += / -= boardValueTable[r][c], for one cell.
CellScore(targetBoard, player, r, c) ==
    IF targetBoard[r][c] = player
    THEN boardValueTable[r + 1][c + 1]
    ELSE IF targetBoard[r][c] = Opponent(player)
         THEN 0 - boardValueTable[r + 1][c + 1]
         ELSE 0

\* The inner loop of evaluateBoard: row r, from column c on.
RECURSIVE RowScore(_, _, _, _)
RowScore(targetBoard, player, r, c) ==
    IF c >= BOARD_SIZE
    THEN 0
    ELSE CellScore(targetBoard, player, r, c) + RowScore(targetBoard, player, r, c + 1)

\* The outer loop of evaluateBoard, from row r on.
RECURSIVE PositionScore(_, _, _)
PositionScore(targetBoard, player, r) ==
    IF r >= BOARD_SIZE
    THEN 0
    ELSE RowScore(targetBoard, player, r, 0) + PositionScore(targetBoard, player, r + 1)

evaluateBoard(targetBoard, player) ==
    LET opponent == Opponent(player)
        boardPositionScore == PositionScore(targetBoard, player, 0)
        playerMoves == Len(getValidMoves(targetBoard, player))
        opponentMoves == Len(getValidMoves(targetBoard, opponent))
        mobilityScore == playerMoves - opponentMoves
    IN  (boardPositionScore * 1) + (mobilityScore * 5)

Max(a, b) == IF a >= b THEN a ELSE b
Min(a, b) == IF a <= b THEN a ELSE b

\* Mutant of LeafScore: the leaf evaluated for the player to move at the leaf.
LeafScoreOfMover(targetBoard, player, rootPlayer) == evaluateBoard(targetBoard, player)

\* The score of a leaf of the search.
LeafScore(targetBoard, player, rootPlayer) == evaluateBoard(targetBoard, rootPlayer)

\* Mutant of Improves: an equal score replaces the best move too.
ImprovesOrTies(score, bestEval, isMaximizingPlayer) ==
    IF isMaximizingPlayer THEN score >= bestEval ELSE score =< bestEval

\* if (result.score > maxEval) / if (result.score < minEval)
Improves(score, bestEval, isMaximizingPlayer) ==
    IF isMaximizingPlayer THEN score > bestEval ELSE score < bestEval

\* if (beta <= alpha) break
CutOff(alpha, beta) == beta <= alpha

RECURSIVE alphaBetaSearch(_, _, _, _, _, _, _)
RECURSIVE MaxLoop(_, _, _, _, _, _, _, _, _, _)
RECURSIVE MinLoop(_, _, _, _, _, _, _, _, _, _)

\* for (const move of validMoves) of the maximizing branch, from index i on.
MaxLoop(targetBoard, player, depth, alpha, beta, rootPlayer, validMoves, i, maxEval, bestMove) ==
    IF i > Len(validMoves)
    THEN [score |-> maxEval, move |-> bestMove]
    ELSE LET move == validMoves[i]
             newBoard == getResultingBoard(targetBoard, player, move.row, move.col)
             result == alphaBetaSearch(newBoard, Opponent(player), depth - 1,
                                       alpha, beta, FALSE, rootPlayer)
             better == Improves(result.score, maxEval, TRUE)
             newMax == IF better THEN result.score ELSE maxEval
             newBest == IF better THEN move ELSE bestMove
             newAlpha == Max(alpha, result.score)
         IN  IF CutOff(newAlpha, beta)
             THEN [score |-> newMax, move |-> newBest]
             ELSE MaxLoop(targetBoard, player, depth, newAlpha, beta, rootPlayer,
                          validMoves, i + 1, newMax, newBest)

\* for (const move of validMoves) of the minimizing branch, from index i on.
MinLoop(targetBoard, player, depth, alpha, beta, rootPlayer, validMoves, i, minEval, bestMove) ==
    IF i > Len(validMoves)
    THEN [score |-> minEval, move |-> bestMove]
    ELSE LET move == validMoves[i]
             newBoard == getResultingBoard(targetBoard, player, move.row, move.col)
             result == alphaBetaSearch(newBoard, Opponent(player), depth - 1,
                                       alpha, beta, TRUE, rootPlayer)
             better == Improves(result.score, minEval, FALSE)
             newMin == IF better THEN result.score ELSE minEval
             newBest == IF better THEN move ELSE bestMove
             newBeta == Min(beta, result.score)
         IN  IF CutOff(alpha, newBeta)
             THEN [score |-> newMin, move |-> newBest]
             ELSE MinLoop(targetBoard, player, depth, alpha, newBeta, rootPlayer,
                          validMoves, i + 1, newMin, newBest)

alphaBetaSearch(targetBoard, player, depth, alpha, beta, isMaximizingPlayer, rootPlayer) ==
    LET opponent == Opponent(player)
        validMoves == getValidMoves(targetBoard, player)
    IN  IF depth = 0 \/ (Len(validMoves) = 0 /\ Len(getValidMoves(targetBoard, opponent)) = 0)
        THEN [score |-> LeafScore(targetBoard, player, rootPlayer), move |-> undefined]
        ELSE IF Len(validMoves) = 0
             THEN alphaBetaSearch(targetBoard, opponent, depth, alpha, beta,
                                  ~isMaximizingPlayer, rootPlayer)
             ELSE IF isMaximizingPlayer
                  THEN MaxLoop(targetBoard, player, depth, alpha, beta, rootPlayer,
                               validMoves, 1, -Infinity, validMoves[1])
                  ELSE MinLoop(targetBoard, player, depth, alpha, beta, rootPlayer,
                               validMoves, 1, Infinity, validMoves[1])

\* Mutant of IsLeafNode: the test of neither player having a move left out.
IsLeafNodeDepthOnly(targetBoard, player, depth) == depth = 0

\* The base case of alphaBetaSearch: depth 0, or neither player has a move.
IsLeafNode(targetBoard, player, depth) ==
    \/ depth = 0
    \/ /\ Len(getValidMoves(targetBoard, player)) = 0
       /\ Len(getValidMoves(targetBoard, Opponent(player))) = 0

\* if (validMoves.length === 0), tested after the base case: a forced pass.
IsPassNode(targetBoard, player, depth) ==
    /\ ~IsLeafNode(targetBoard, player, depth)
    /\ Len(getValidMoves(targetBoard, player)) = 0

\* The for loop of alphaBetaSearch when it comes to validMoves[i]: whether it
\* comes there at all (no break before), and alpha and beta there.
RECURSIVE LoopBefore(_, _, _, _, _, _, _, _)
LoopBefore(targetBoard, player, depth, alpha, beta, isMaximizingPlayer, rootPlayer, i) ==
    IF i = 1
    THEN [reached |-> TRUE, alpha |-> alpha, beta |-> beta]
    ELSE LET before == LoopBefore(targetBoard, player, depth, alpha, beta,
                                  isMaximizingPlayer, rootPlayer, i - 1)
             move == getValidMoves(targetBoard, player)[i - 1]
             newBoard == getResultingBoard(targetBoard, player, move.row, move.col)
             result == alphaBetaSearch(newBoard, Opponent(player), depth - 1,
                                       before.alpha, before.beta,
                                       ~isMaximizingPlayer, rootPlayer)
             newAlpha == IF isMaximizingPlayer
                         THEN Max(before.alpha, result.score) ELSE before.alpha
             newBeta == IF isMaximizingPlayer
                        THEN before.beta ELSE Min(before.beta, result.score)
         IN  IF before.reached
             THEN [reached |-> ~CutOff(newAlpha, newBeta),
                   alpha |-> newAlpha, beta |-> newBeta]
             ELSE before

\* const depth = 4; // AI strength
AIDepth == 4

\* The value the promise of findBestMove resolves to: result.move
findBestMove(b, player) ==
    alphaBetaSearch(b, player, AIDepth, -Infinity, Infinity, TRUE, player).move

(***************************************************************************)
(* Neural-network AI                                                       *)
(***************************************************************************)
\* An element of outputData is a number or not a number; every comparison
\* with NaN is false, as with the undefined of an index outputData lacks.
Number(v) == [nan |-> FALSE, value |-> v]
NaN == [nan |-> TRUE, value |-> 0]

\* Mutant of Greater: an equal score replaces the best move too.
GreaterOrEqual(score, maxScore) == ~score.nan /\ score.value >= maxScore

\* if (score > maxScore)
Greater(score, maxScore) == ~score.nan /\ score.value > maxScore

\* for (const move of validMoves) of the neural findBestMove, from index i on.
RECURSIVE ScoreLoop(_, _, _, _, _)
ScoreLoop(validMoves, outputData, i, maxScore, bestMove) ==
    IF i > Len(validMoves)
    THEN bestMove
    ELSE LET move == validMoves[i]
             moveIndex == move.row * BOARD_SIZE + move.col
             score == outputData[moveIndex]
         IN  IF Greater(score, maxScore)
             THEN ScoreLoop(validMoves, outputData, i + 1, score.value, move)
             ELSE ScoreLoop(validMoves, outputData, i + 1, maxScore, bestMove)

\* The findBestMove of the object createNNAI returns.  results is what
\* session.run gives: ok is FALSE when the promise is rejected or the output
\* tensor is missing, and data is the data of the output tensor otherwise.
NNfindBestMove(session, b, player, results) ==
    IF ~session
    THEN null
    ELSE LET validMoves == getValidMoves(b, player)
         IN  IF Len(validMoves) = 0
             THEN null
             ELSE IF ~results.ok
                  THEN null
                  ELSE ScoreLoop(validMoves, results.data, 1, -Infinity, null)

(***************************************************************************)
(* Inputs                                                                  *)
(***************************************************************************)
\* Bounds of the input sets: the pieces put on an empty board, and the
\* moves played from the initial board.
MaxPlaced == 3
MaxSearchPlaced == 2
MaxPlies == 2
\* Bound of the rows and columns getResultingBoard is called with.
MaxTarget == 4

\* The depths the search is called with besides AIDepth.
TestDepths == 1 .. 3

\* The depths the chains of recursive calls start with.
DescentDepths == TestDepths

Cells == {LoopCells[k] : k \in DOMAIN LoopCells}

\* The put pieces lie in a corner of the board: three rows of four cells for
\* the rules engine, two rows of three cells for the search.
CornerCells == {m \in Cells : m.row <= 2 /\ m.col <= 3}
SearchCells == {m \in Cells : m.row <= 1 /\ m.col <= 2}

\* The boards with at most n pieces, all of them on the cells of where.
RECURSIVE PlacedBoards(_, _)
PlacedBoards(where, n) ==
    IF n = 0
    THEN {EmptyBoard}
    ELSE LET less == PlacedBoards(where, n - 1)
         IN  less \cup {SetCell(b, m.row, m.col, p) :
                            b \in less, m \in where, p \in Players}

\* The positions <<board, player to move>> one legal move after those of from.
Successors(from) ==
    UNION {{<<getResultingBoard(q[1], q[2], getValidMoves(q[1], q[2])[i].row,
                                getValidMoves(q[1], q[2])[i].col),
              Opponent(q[2])>> : i \in DOMAIN getValidMoves(q[1], q[2])} : q \in from}

\* The positions at most n legal moves after those of from.
RECURSIVE PlayedPositions(_, _)
PlayedPositions(from, n) ==
    IF n = 0 THEN from ELSE from \cup PlayedPositions(Successors(from), n - 1)

\* The inputs of the rules engine: a board and either player.
RulesInputs ==
    (PlacedBoards(CornerCells, MaxPlaced)
        \cup {q[1] : q \in PlayedPositions({<<InitBoard, BLACK>>}, MaxPlies)})
    \X Players

\* The inputs of getFlippablePieces called on its own: the pieces are put on
\* the cells of the search, which leaves most of the targets off them.
FlipInputs ==
    (PlacedBoards(SearchCells, MaxPlaced)
        \cup {q[1] : q \in PlayedPositions({<<InitBoard, BLACK>>}, MaxPlies)})
    \X Players

\* A board on which Black has three moves, the second and the third of them
\* with the same score, greater than that of the first.
TieBoard ==
    SetCell(SetCell(SetCell(SetCell(EmptyBoard, 0, 0, BLACK), 0, 2, BLACK),
                    1, 2, BLACK), 1, 1, WHITE)

\* The inputs of the search, which visits many boards: fewer cells to put
\* pieces on, one move fewer, only the player to move after a move; and
\* TieBoard.
SearchInputs ==
    (PlacedBoards(SearchCells, MaxSearchPlaced) \X Players)
    \cup PlayedPositions({<<InitBoard, BLACK>>}, MaxPlies - 1)
    \cup {<<TieBoard, BLACK>>}

\* The scores of the model on the legal moves: two numbers, -Infinity and
\* NaN.  On every other cell the model gives a greater number.
NNScores == {Number(-Infinity), Number(1), Number(2), NaN}

\* The results of session.run on the position: a failure, or an output
\* tensor with scores of NNScores on the legal moves.
NNResults(b, p) ==
    LET validMoves == getValidMoves(b, p)
        index == {validMoves[i].row * BOARD_SIZE + validMoves[i].col : i \in DOMAIN validMoves}
    IN  {[ok |-> FALSE]} \cup
        {[ok |-> TRUE,
          data |-> [k \in 0 .. (BOARD_SIZE * BOARD_SIZE - 1) |->
                       IF k \in index THEN f[k] ELSE Number(3)]] : f \in [index -> NNScores]}

\* The boards the chains of recursive calls start from, every activation
\* below them a state of its own; and the boards the neural findBestMove is
\* called with, every output of the model a state of its own.
DescentInputs ==
    (PlacedBoards(SearchCells, MaxSearchPlaced) \X Players)
    \cup {<<InitBoard, BLACK>>, <<TieBoard, BLACK>>}

(***************************************************************************)
(* State: the arguments of a call, and the call made with its result.      *)
(***************************************************************************)
VARIABLES board, player, call

\* The state of the page's script besides board: the globals currentPlayer,
\* gameMode, isAIThinking and aiPlayers (the keys of the AIs it holds), what
\* gameResultElement shows, the values of the two AI selectors, the cells
\* drawBoard gave a click listener, and the calls of aiMove that wait at an
\* await.  previousBoard and the game log only feed the display.
VARIABLES currentPlayer, gameMode, isAIThinking, gameResult, aiSelectorBlack, aiSelectorWhite, aiPlayers, listeners, tasks

driver == <<currentPlayer, gameMode, isAIThinking, gameResult, aiSelectorBlack, aiSelectorWhite, aiPlayers, listeners, tasks>>
vars == <<board, player, call, driver>>

NoCall == [op |-> "none"]

\* The script as loaded, before initGame: the functions are called on their
\* own.
DriverIdle ==
    /\ currentPlayer = BLACK
    /\ gameMode = "human-vs-ai"
    /\ isAIThinking = FALSE
    /\ gameResult = ""
    /\ aiSelectorBlack = "classic"
    /\ aiSelectorWhite = "classic"
    /\ aiPlayers = {}
    /\ listeners = {}
    /\ tasks = <<>>

InitRules ==
    /\ DriverIdle
    /\ \E q \in RulesInputs : board = q[1] /\ player = q[2]
    /\ call = NoCall

InitFlips ==
    /\ DriverIdle
    /\ \E q \in FlipInputs : board = q[1] /\ player = q[2]
    /\ call = NoCall

InitNN ==
    /\ DriverIdle
    /\ \E q \in DescentInputs : board = q[1] /\ player = q[2]
    /\ call = NoCall

InitSearch ==
    /\ DriverIdle
    /\ \E q \in SearchInputs : board = q[1] /\ player = q[2]
    /\ call = NoCall

CallGetValidMoves ==
    /\ call = NoCall
    /\ call' = [op |-> "getValidMoves", result |-> getValidMoves(board, player)]
    /\ UNCHANGED <<board, player, driver>>

CallGetResultingBoard(row, col) ==
    /\ call = NoCall
    /\ call' = [op |-> "getResultingBoard", row |-> row, col |-> col,
                result |-> getResultingBoard(board, player, row, col)]
    /\ UNCHANGED <<board, player, driver>>

CallGetFlippablePieces(row, col) ==
    /\ call = NoCall
    /\ call' = [op |-> "getFlippablePieces", row |-> row, col |-> col,
                result |-> getFlippablePieces(board, player, row, col)]
    /\ UNCHANGED <<board, player, driver>>

CallEvaluateBoard ==
    /\ call = NoCall
    /\ call' = [op |-> "evaluateBoard", result |-> evaluateBoard(board, player)]
    /\ UNCHANGED <<board, player, driver>>

CallNNfindBestMove(results) ==
    /\ call = NoCall
    /\ call' = [op |-> "NNfindBestMove", results |-> results,
                result |-> NNfindBestMove(TRUE, board, player, results)]
    /\ UNCHANGED <<board, player, driver>>

CallAlphaBetaSearch(depth) ==
    /\ call = NoCall
    /\ call' = [op |-> "alphaBetaSearch", depth |-> depth,
                result |-> alphaBetaSearch(board, player, depth, -Infinity, Infinity,
                                           TRUE, player)]
    /\ UNCHANGED <<board, player, driver>>

CallFindBestMove ==
    /\ call = NoCall
    /\ call' = [op |-> "findBestMove", result |-> findBestMove(board, player)]
    /\ UNCHANGED <<board, player, driver>>

NextRules ==
    \/ CallGetValidMoves
    \/ \E row \in 0 .. MaxTarget, col \in 0 .. MaxTarget : CallGetResultingBoard(row, col)

\* One activation of alphaBetaSearch, the innermost of a chain of recursive
\* calls: board and player are its arguments, call holds the others, how it
\* was called (via) and whether it has returned.
Node(depth, alpha, beta, isMaximizingPlayer, rootPlayer, via) ==
    [op |-> "node", depth |-> depth, alpha |-> alpha, beta |-> beta,
     isMaximizingPlayer |-> isMaximizingPlayer, rootPlayer |-> rootPlayer,
     via |-> via, returned |-> FALSE]

\* findBestMove or a test calls alphaBetaSearch(board, player, depth,
\* -Infinity, Infinity, true, player).
InitDescent ==
    /\ DriverIdle
    /\ \E q \in DescentInputs : board = q[1] /\ player = q[2]
    /\ \E depth \in DescentDepths :
           call = Node(depth, -Infinity, Infinity, TRUE, player, "root")

\* The base case returns the evaluation.
ReturnLeaf ==
    /\ ~call.returned
    /\ IsLeafNode(board, player, call.depth)
    /\ call' = [call EXCEPT !.returned = TRUE]
    /\ UNCHANGED <<board, player, driver>>

\* The forced pass: alphaBetaSearch(targetBoard, opponent, depth, alpha,
\* beta, !isMaximizingPlayer, rootPlayer).
RecursePass ==
    /\ ~call.returned
    /\ IsPassNode(board, player, call.depth)
    /\ player' = Opponent(player)
    /\ call' = Node(call.depth, call.alpha, call.beta, ~call.isMaximizingPlayer,
                    call.rootPlayer, "pass")
    /\ UNCHANGED <<board, driver>>

\* The call of the loop body for validMoves[i]: alphaBetaSearch(newBoard,
\* opponent, depth - 1, alpha, beta, false / true, rootPlayer).
RecurseMove(i) ==
    /\ ~call.returned
    /\ call.depth # 0
    /\ i \in DOMAIN getValidMoves(board, player)
    /\ LET loop == LoopBefore(board, player, call.depth, call.alpha, call.beta,
                              call.isMaximizingPlayer, call.rootPlayer, i)
           move == getValidMoves(board, player)[i]
       IN  /\ loop.reached
           /\ board' = getResultingBoard(board, player, move.row, move.col)
           /\ player' = Opponent(player)
           /\ call' = Node(call.depth - 1, loop.alpha, loop.beta,
                           ~call.isMaximizingPlayer, call.rootPlayer, "move")
    /\ UNCHANGED driver

NextDescent ==
    \/ ReturnLeaf
    \/ RecursePass
    \/ \E i \in DOMAIN getValidMoves(board, player) : RecurseMove(i)

NextNN ==
    \E results \in NNResults(board, player) : CallNNfindBestMove(results)

NextFlips ==
    \E row \in 0 .. MaxTarget, col \in 0 .. MaxTarget : CallGetFlippablePieces(row, col)

NextSearch ==
    \/ \E depth \in TestDepths : CallAlphaBetaSearch(depth)
    \/ CallFindBestMove
    \/ CallEvaluateBoard

SpecRules == InitRules /\ [][NextRules]_vars
SpecSearch == InitSearch /\ [][NextSearch]_vars
SpecFlips == InitFlips /\ [][NextFlips]_vars
SpecDescent == InitDescent /\ [][NextDescent]_vars
SpecNN == InitNN /\ [][NextNN]_vars

(***************************************************************************)
(* Vocabulary of the properties                                            *)
(***************************************************************************)
Range(seq) == {seq[i] : i \in DOMAIN seq}

Target == [row |-> call.row, col |-> call.col]

\* A legal move: the cell is Empty and a piece would be flipped.
LegalTarget(b, p, m) ==
    b[m.row][m.col] = EMPTY /\ getFlippablePieces(b, p, m.row, m.col) # <<>>

PieceCount(b, p) == Cardinality({m \in Cells : b[m.row][m.col] = p})
TotalPieces(b) == PieceCount(b, BLACK) + PieceCount(b, WHITE)

\* The pieces the call of getResultingBoard in call is to flip.
Flipped == getFlippablePieces(board, player, call.row, call.col)

SetMax(S) == CHOOSE v \in S : \A w \in S : w <= v
SetMin(S) == CHOOSE v \in S : \A w \in S : v <= w

\* Minimax without pruning: the depth, the pass rule and the leaves (scored
\* for rootPlayer) of the search, the value of a node the greatest or the
\* least value of its children.
RECURSIVE Minimax(_, _, _, _, _)
Minimax(b, p, depth, isMaximizing, rootPlayer) ==
    LET moves == getValidMoves(b, p)
        values == {Minimax(getResultingBoard(b, p, moves[i].row, moves[i].col),
                           Opponent(p), depth - 1, ~isMaximizing, rootPlayer) :
                      i \in DOMAIN moves}
    IN  IF depth = 0 \/ (moves = <<>> /\ getValidMoves(b, Opponent(p)) = <<>>)
        THEN evaluateBoard(b, rootPlayer)
        ELSE IF moves = <<>>
             THEN Minimax(b, Opponent(p), depth, ~isMaximizing, rootPlayer)
             ELSE IF isMaximizing THEN SetMax(values) ELSE SetMin(values)

\* The minimax scores of the legal moves of p on b, in the order of the
\* moves, for a node of the given depth and kind.
MoveScores(b, p, depth, isMaximizing, rootPlayer) ==
    LET moves == getValidMoves(b, p)
    IN  [i \in DOMAIN moves |->
            Minimax(getResultingBoard(b, p, moves[i].row, moves[i].col),
                    Opponent(p), depth - 1, ~isMaximizing, rootPlayer)]

\* The index of the first score of scores equal to best.
FirstIndex(scores, best) ==
    CHOOSE i \in DOMAIN scores :
        scores[i] = best /\ \A j \in 1 .. (i - 1) : scores[j] # best

\* The root of the search has no legal move and the opponent has one.
RootPasses == getValidMoves(board, player) = <<>> /\ getValidMoves(board, Opponent(player)) # <<>>

(***************************************************************************)
(* Classic AI: C1 - C5, under SpecSearch                                   *)
(***************************************************************************)
\* C1: findBestMove(board, player) returns no move whenever
\* getValidMoves(board, player) is empty, also when the opponent has a legal
\* move.  The code returns the opponent's move after a pass at the root.
C1_NoMoveWhenNoValidMoves ==
    (call.op = "findBestMove" /\ getValidMoves(board, player) = <<>>)
        => call.result = undefined

\* C2: with a legal move, findBestMove returns one of the legal moves, and a
\* returned move never comes with an empty list of legal moves.  The second
\* half fails with C1.
C2_MoveIffValidMoves ==
    call.op = "findBestMove" =>
        /\ getValidMoves(board, player) # <<>> =>
              call.result \in Range(getValidMoves(board, player))
        /\ ~(call.result # undefined /\ getValidMoves(board, player) = <<>>)

\* The half of C2 the code keeps: with a legal move, the move returned is
\* one of the legal moves.
C2_MoveIsValidWhenAny ==
    (call.op = "findBestMove" /\ getValidMoves(board, player) # <<>>)
        => call.result \in Range(getValidMoves(board, player))

\* C3: at a depth of 1 to 3 the move the search chooses at the root has a
\* minimax score equal to the greatest minimax score of the root's legal
\* moves, and the score returned is that greatest score; the score returned
\* is the minimax value of the root also when the root passes.
C3_AlphaBetaMatchesMinimax ==
    call.op = "alphaBetaSearch" =>
        IF getValidMoves(board, player) # <<>>
        THEN LET moves == getValidMoves(board, player)
                 scores == MoveScores(board, player, call.depth, TRUE, player)
                 best == SetMax(Range(scores))
             IN  /\ call.result.score = best
                 /\ \E i \in DOMAIN moves :
                       moves[i] = call.result.move /\ scores[i] = best
        ELSE call.result.score = Minimax(board, player, call.depth, TRUE, player)

C3_Witness ==
    /\ call.op = "alphaBetaSearch"
    /\ call.depth = 3
    /\ Len(getValidMoves(board, player)) >= 3
    /\ call.result.move # getValidMoves(board, player)[1]
    /\ Cardinality(Range(MoveScores(board, player, call.depth, TRUE, player))) >= 2

\* C4: of the root's legal moves with the best minimax score the search
\* returns the first in row-major order; after a pass at the root, a
\* minimizing node, the first of the opponent's moves with the least score.
C4_FirstBestMoveWins ==
    call.op = "alphaBetaSearch" =>
        /\ getValidMoves(board, player) # <<>> =>
              LET scores == MoveScores(board, player, call.depth, TRUE, player)
              IN  call.result.move =
                    getValidMoves(board, player)[FirstIndex(scores, SetMax(Range(scores)))]
        /\ RootPasses =>
              LET scores == MoveScores(board, Opponent(player), call.depth, FALSE, player)
              IN  call.result.move =
                    getValidMoves(board, Opponent(player))[FirstIndex(scores, SetMin(Range(scores)))]

\* Several moves of the root have the best score, the first of them after a
\* move with a lesser score, and the children are inner nodes of the search.
C4_Witness ==
    /\ call.op = "alphaBetaSearch"
    /\ call.depth >= 2
    /\ Len(getValidMoves(board, player)) >= 3
    /\ LET scores == MoveScores(board, player, call.depth, TRUE, player)
           best == SetMax(Range(scores))
       IN  /\ Cardinality({i \in DOMAIN scores : scores[i] = best}) >= 2
           /\ FirstIndex(scores, best) > 1

\* The score the search gives a move of the root: that of the board the move
\* leads to, searched one ply less deep for the opponent, minimizing.
SearchScore(b, p, m, depth) ==
    alphaBetaSearch(getResultingBoard(b, p, m.row, m.col), Opponent(p), depth - 1,
                    -Infinity, Infinity, FALSE, p).score

\* C5: on the initial board, Black to move, depth 4: the legal moves are
\* (2,3), (3,2), (4,5), (5,4), the four have the same search score, and
\* findBestMove returns (2,3).
C5_OpeningMove ==
    (call.op = "findBestMove" /\ board = InitBoard /\ player = BLACK) =>
        /\ getValidMoves(board, player) =
              << [row |-> 2, col |-> 3], [row |-> 3, col |-> 2],
                 [row |-> 4, col |-> 5], [row |-> 5, col |-> 4] >>
        /\ \A m \in Range(getValidMoves(board, player)) :
              SearchScore(board, player, m, AIDepth)
                 = SearchScore(board, player, [row |-> 2, col |-> 3], AIDepth)
        /\ call.result = [row |-> 2, col |-> 3]

C5_Witness ==
    /\ call.op = "findBestMove"
    /\ board = InitBoard
    /\ player = BLACK
    /\ call.result # undefined

(***************************************************************************)
(* Rules engine: C6 - C10, under SpecRules                                 *)
(***************************************************************************)
\* C6: getValidMoves(board, player) holds a cell if and only if the cell is
\* Empty and getFlippablePieces of it is not empty, and holds it once.
C6_ValidMovesAreTheLegalCells ==
    call.op = "getValidMoves" =>
        /\ \A m \in Cells : m \in Range(call.result) <=> LegalTarget(board, player, m)
        /\ \A i, j \in DOMAIN call.result : call.result[i] = call.result[j] => i = j

\* Some cell is a move, and some occupied cell has pieces to flip around it.
C6_Witness ==
    /\ call.op = "getValidMoves"
    /\ Len(call.result) >= 2
    /\ \E m \in Cells :
          /\ board[m.row][m.col] # EMPTY
          /\ getFlippablePieces(board, player, m.row, m.col) # <<>>

\* C7: the moves of getValidMoves are in strictly increasing row-major
\* order.
C7_ValidMovesRowMajor ==
    call.op = "getValidMoves" =>
        \A i \in 1 .. (Len(call.result) - 1) :
            \/ call.result[i].row < call.result[i + 1].row
            \/ /\ call.result[i].row = call.result[i + 1].row
               /\ call.result[i].col < call.result[i + 1].col

\* Two moves follow each other in a row, and two in rows with the column
\* going down.
C7_Witness ==
    /\ call.op = "getValidMoves"
    /\ \E i \in 1 .. (Len(call.result) - 1) :
          call.result[i].row = call.result[i + 1].row
    /\ \E i \in 1 .. (Len(call.result) - 1) :
          /\ call.result[i].row < call.result[i + 1].row
          /\ call.result[i].col > call.result[i + 1].col

\* C8 as stated: after a legal move the board has 1 + (number of flipped
\* pieces) more pieces than before.
C8_TotalGrowsByOnePlusFlips ==
    (call.op = "getResultingBoard" /\ LegalTarget(board, player, Target)) =>
        /\ call.result # null
        /\ TotalPieces(call.result) = TotalPieces(board) + 1 + Len(Flipped)

\* C8 amended: after a legal move the board has one piece more than before,
\* and 1 + (number of flipped pieces) more pieces of the player.
C8_PlayerGrowsByOnePlusFlips ==
    (call.op = "getResultingBoard" /\ LegalTarget(board, player, Target)) =>
        /\ call.result # null
        /\ TotalPieces(call.result) = TotalPieces(board) + 1
        /\ PieceCount(call.result, player) = PieceCount(board, player) + 1 + Len(Flipped)

C8_Witness ==
    /\ call.op = "getResultingBoard"
    /\ LegalTarget(board, player, Target)
    /\ Len(Flipped) >= 2

\* C9: after a legal move the target cell and the flipped cells hold the
\* player, and every other cell is as it was.
C9_OnlyTargetAndFlippedChange ==
    (call.op = "getResultingBoard" /\ LegalTarget(board, player, Target)) =>
        /\ call.result # null
        /\ \A m \in Cells :
              call.result[m.row][m.col] =
                 IF m = Target \/ m \in Range(Flipped) THEN player ELSE board[m.row][m.col]

\* Pieces are flipped along two lines, and a piece of the opponent stays.
C9_Witness ==
    /\ call.op = "getResultingBoard"
    /\ LegalTarget(board, player, Target)
    /\ \E d, e \in DOMAIN DIRECTIONS :
          /\ d # e
          /\ Lines(board, player, call.row, call.col)[d] # <<>>
          /\ Lines(board, player, call.row, call.col)[e] # <<>>
    /\ call.result # null
    /\ PieceCount(call.result, Opponent(player)) > 0

\* C10: for a target that is no legal move (not Empty, or Empty with no
\* piece to flip) getResultingBoard returns null.  The code returns a board
\* for every occupied target.
C10_NullForIllegalTarget ==
    (call.op = "getResultingBoard" /\ ~LegalTarget(board, player, Target))
        => call.result = null
(***************************************************************************)
(* getFlippablePieces                                                      *)
(***************************************************************************)
\* C11: for every board, player and target cell, getFlippablePieces returns
\* no piece when the target cell is not Empty.
C11_EmptyForOccupiedTarget ==
    (call.op = "getFlippablePieces" /\ board[call.row][call.col] # EMPTY)
        => call.result = <<>>

\* The cell k steps from (row, col) in the direction dir.
Step(row, col, dir, k) == [row |-> row + k * dir[1], col |-> col + k * dir[2]]

OnBoard(m) == m.row \in Rows /\ m.col \in Rows

\* The length of the longest run of cells of the opponent of p that starts
\* next to (row, col) and goes in the direction dir.
RunLength(b, p, row, col, dir) ==
    SetMax({n \in 0 .. BOARD_SIZE - 1 :
               \A k \in 1 .. n :
                   /\ OnBoard(Step(row, col, dir, k))
                   /\ b[Step(row, col, dir, k).row][Step(row, col, dir, k).col] = Opponent(p)})

\* The run counts: the cell right after it is on the board and holds p.
Bracketed(b, p, row, col, dir) ==
    LET after == Step(row, col, dir, RunLength(b, p, row, col, dir) + 1)
    IN  OnBoard(after) /\ b[after.row][after.col] = p

RunCells(b, p, row, col, dir) ==
    IF Bracketed(b, p, row, col, dir)
    THEN {Step(row, col, dir, k) : k \in 1 .. RunLength(b, p, row, col, dir)}
    ELSE {}

\* C12: the pieces getFlippablePieces returns are those of the runs of the
\* eight directions that count, a run that ends on the edge of the board or
\* on an Empty cell giving none, and no piece is returned twice.
C12_UnionOfBracketedRuns ==
    call.op = "getFlippablePieces" =>
        /\ Range(call.result) =
               UNION {RunCells(board, player, call.row, call.col, DIRECTIONS[d]) :
                          d \in DOMAIN DIRECTIONS}
        /\ Len(call.result) = Cardinality(Range(call.result))

\* A call that returns the runs of two directions while the run of a third
\* direction ends on the edge or on an Empty cell.
C12_Witness ==
    /\ call.op = "getFlippablePieces"
    /\ Cardinality({d \in DOMAIN DIRECTIONS :
                       RunCells(board, player, call.row, call.col, DIRECTIONS[d]) # {}}) >= 2
    /\ \E d \in DOMAIN DIRECTIONS :
           /\ RunLength(board, player, call.row, call.col, DIRECTIONS[d]) > 0
           /\ ~Bracketed(board, player, call.row, call.col, DIRECTIONS[d])
           /\ call.result # <<>>


(***************************************************************************)
(* evaluateBoard                                                           *)
(***************************************************************************)
\* The sum of the values boardValueTable gives the cells of S.
RECURSIVE TableSum(_)
TableSum(S) ==
    IF S = {}
    THEN 0
    ELSE LET m == CHOOSE x \in S : TRUE
         IN  boardValueTable[m.row + 1][m.col + 1] + TableSum(S \ {m})

CellsOf(b, p) == {m \in Cells : b[m.row][m.col] = p}

\* The legal moves of p on b, as a set.
LegalMoves(b, p) == {m \in Cells : LegalTarget(b, p, m)}

\* C13: evaluateBoard is the table sum of the pieces of the player less that
\* of the opponent, plus 5 times the legal moves of the player less those of
\* the opponent, and evaluateBoard(board, player) =
\* -evaluateBoard(board, opponent).
C13_EvaluateAntisymmetric ==
    call.op = "evaluateBoard" =>
        /\ call.result =
               (TableSum(CellsOf(board, player)) - TableSum(CellsOf(board, Opponent(player))))
               + 5 * (Cardinality(LegalMoves(board, player))
                      - Cardinality(LegalMoves(board, Opponent(player))))
        /\ call.result = 0 - evaluateBoard(board, Opponent(player))

\* A call on a board with pieces of both players, on which the two players
\* have not as many moves, and the score is not 0.
C13_Witness ==
    /\ call.op = "evaluateBoard"
    /\ call.result # 0
    /\ CellsOf(board, BLACK) # {} /\ CellsOf(board, WHITE) # {}
    /\ TableSum(CellsOf(board, BLACK)) # TableSum(CellsOf(board, WHITE))
    /\ Cardinality(LegalMoves(board, BLACK)) # Cardinality(LegalMoves(board, WHITE))
    /\ LegalMoves(board, BLACK) # {} /\ LegalMoves(board, WHITE) # {}


(***************************************************************************)
(* The recursion of alphaBetaSearch                                        *)
(***************************************************************************)
\* What is left of a chain of recursive calls: twice the depth, one more
\* while the next call may be a forced pass, and the return.
Rank ==
    IF call.returned
    THEN 0
    ELSE 2 * call.depth + (IF call.via = "pass" THEN 1 ELSE 2)

\* C16: the recursion ends for every depth: a call made by a forced pass
\* never makes a forced pass itself, so that every call of the chain, and the
\* return, lowers Rank, which is never negative.
C16_PassNeverFollowsPass ==
    [][/\ (call.via = "pass" /\ ~call.returned) => call'.via # "pass"
       /\ Rank' < Rank
       /\ Rank' >= 0]_vars

\* A call made by a forced pass, with depth left, whose player has a move.
C16_Witness ==
    /\ call.op = "node"
    /\ call.via = "pass"
    /\ call.depth > 0
    /\ ~IsLeafNode(board, player, call.depth)
    /\ getValidMoves(board, player) # <<>>


(***************************************************************************)
(* The findBestMove of the neural-network AI                               *)
(***************************************************************************)
\* The score the call's output tensor gives the move m.
ScoreOf(m) == call.results.data[m.row * BOARD_SIZE + m.col]

\* The indices of the moves of validMoves with a score that is a number
\* greater than -Infinity.
Scored(validMoves) ==
    IF call.results.ok
    THEN {i \in DOMAIN validMoves :
              ScoreOf(validMoves[i]) # NaN /\ ScoreOf(validMoves[i]) # Number(-Infinity)}
    ELSE {}

\* The first of the moves of validMoves with the greatest score.
FirstGreatest(validMoves) ==
    LET scored == Scored(validMoves)
    IN  validMoves[SetMin({i \in scored :
                              \A j \in scored :
                                  ScoreOf(validMoves[j]).value <= ScoreOf(validMoves[i]).value})]

GameModes == {"human-vs-human", "human-vs-ai", "ai-vs-ai"}
AIKeys == {"classic", "cnn_v1"}

\* AI_MODELS[key].type
AIType(key) == IF key = "classic" THEN "classic" ELSE "nn"

\* What gameResultElement shows after endGame.
EndResults == {"black", "white", "draw"}

\* Bounds: the calls of aiMove that wait at the same time; the moves of a game
\* after which the user still resets it or changes a selector, and after
\* which several waiting calls of aiMove are still followed; the moves of a
\* game after which the classic AI is still asked for a move.
MaxTasks == 2
MaxRaceMoves == 0
MaxClassicMoves == 1

\* The moves of a game after which the load of a neural AI or its inference
\* still fails.
MaxFailMoves == 1

\* The cells the users click and the model of the neural network prefers: on
\* them lie a game with a pass and a game that ends.
PlayCells ==
    {[row |-> 0, col |-> 0], [row |-> 0, col |-> 2], [row |-> 1, col |-> 1],
     [row |-> 2, col |-> 0], [row |-> 2, col |-> 1], [row |-> 2, col |-> 2],
     [row |-> 2, col |-> 3], [row |-> 2, col |-> 4], [row |-> 2, col |-> 5],
     [row |-> 3, col |-> 5], [row |-> 4, col |-> 5]}

\* The results of session.run on the position: a failure, or an output
\* tensor that is greatest on one of the legal moves of PlayCells.
PlayResults(b, p) ==
    (IF TotalPieces(b) - 4 <= MaxFailMoves THEN {[ok |-> FALSE]} ELSE {}) \cup
    {[ok |-> TRUE,
      data |-> [k \in 0 .. (BOARD_SIZE * BOARD_SIZE - 1) |->
                   IF k = m.row * BOARD_SIZE + m.col THEN Number(1) ELSE Number(0)]] :
        m \in Range(getValidMoves(b, p)) \cap PlayCells}

\* The moves the classic AI finds on the initial board, for either player:
\* InitDriver searches them once and keeps them in call, where ClassicMove
\* looks them up.
OpeningMoves == [p \in Players |-> findBestMove(InitBoard, p)]

\* currentAI.findBestMove(board, currentPlayer) of the classic AI.
ClassicMove(b, p) == IF b = InitBoard THEN call[p] ELSE findBestMove(b, p)

\* The state of the script as one record, which the functions below take and
\* give back.
Script ==
    [board |-> board, currentPlayer |-> currentPlayer, gameMode |-> gameMode,
     isAIThinking |-> isAIThinking, gameResult |-> gameResult,
     aiSelectorBlack |-> aiSelectorBlack, aiSelectorWhite |-> aiSelectorWhite,
     aiPlayers |-> aiPlayers, listeners |-> listeners, tasks |-> tasks]

\* The script as loaded, before the page calls initGame; the selectors show
\* the first key of AI_MODELS.
ScriptLoaded ==
    [board |-> EmptyBoard, currentPlayer |-> BLACK, gameMode |-> "human-vs-ai",
     isAIThinking |-> FALSE, gameResult |-> "",
     aiSelectorBlack |-> "classic", aiSelectorWhite |-> "classic",
     aiPlayers |-> {}, listeners |-> {}, tasks |-> <<>>]

\* The script is in the state s.
Is(s) ==
    /\ board = s.board
    /\ currentPlayer = s.currentPlayer
    /\ gameMode = s.gameMode
    /\ isAIThinking = s.isAIThinking
    /\ gameResult = s.gameResult
    /\ aiSelectorBlack = s.aiSelectorBlack
    /\ aiSelectorWhite = s.aiSelectorWhite
    /\ aiPlayers = s.aiPlayers
    /\ listeners = s.listeners
    /\ tasks = s.tasks

\* The handler leaves the script in the state s.
Becomes(s) ==
    /\ board' = s.board
    /\ currentPlayer' = s.currentPlayer
    /\ gameMode' = s.gameMode
    /\ isAIThinking' = s.isAIThinking
    /\ gameResult' = s.gameResult
    /\ aiSelectorBlack' = s.aiSelectorBlack
    /\ aiSelectorWhite' = s.aiSelectorWhite
    /\ aiPlayers' = s.aiPlayers
    /\ listeners' = s.listeners
    /\ tasks' = s.tasks
    /\ UNCHANGED <<player, call>>

\* Mutant of isCurrentPlayerHuman: Black is human in every mode with an AI.
isCurrentPlayerHumanBlackAlways(s) ==
    IF s.isAIThinking
    THEN FALSE
    ELSE IF s.gameMode = "human-vs-human"
         THEN TRUE
         ELSE s.currentPlayer = BLACK

isCurrentPlayerHuman(s) ==
    IF s.isAIThinking
    THEN FALSE
    ELSE IF s.gameMode = "human-vs-human"
         THEN TRUE
         ELSE IF s.gameMode = "human-vs-ai" /\ s.currentPlayer = BLACK
              THEN TRUE
              ELSE FALSE

\* drawBoard: the Empty cells that are legal moves of currentPlayer get a
\* click listener when isCurrentPlayerHuman().
drawBoard(s) ==
    [s EXCEPT !.listeners = IF isCurrentPlayerHuman(s)
                            THEN Range(getValidMoves(s.board, s.currentPlayer))
                            ELSE {}]

\* A call of aiMove that waits: at the timer, at the load of its AI (orphan
\* when initGame has replaced aiPlayers since), or at session.run, whose
\* findBestMove will return move.
Task(pc, aiKey, orphan, move) == [pc |-> pc, aiKey |-> aiKey, orphan |-> orphan, move |-> move]

\* aiMove up to its first await.
aiMove(s) ==
    IF isCurrentPlayerHuman(s) \/ s.isAIThinking
    THEN s
    ELSE drawBoard([s EXCEPT !.isAIThinking = TRUE,
                             !.gameResult = "thinking",
                             !.tasks = Append(s.tasks, Task("timer", "", FALSE, null))])

checkAndTriggerAIMove(s) == IF ~isCurrentPlayerHuman(s) THEN aiMove(s) ELSE s

\* Mutant of Winner: the player with fewer pieces wins.
WinnerFewerPieces(b) ==
    IF PieceCount(b, BLACK) < PieceCount(b, WHITE)
    THEN "black"
    ELSE IF PieceCount(b, WHITE) < PieceCount(b, BLACK)
         THEN "white"
         ELSE "draw"

\* The result endGame shows.
Winner(b) ==
    IF PieceCount(b, BLACK) > PieceCount(b, WHITE)
    THEN "black"
    ELSE IF PieceCount(b, WHITE) > PieceCount(b, BLACK)
         THEN "white"
         ELSE "draw"

endGame(s) == [s EXCEPT !.gameResult = Winner(s.board), !.isAIThinking = TRUE]

\* Mutant of switchPlayer: the turn goes to the opponent without a look at
\* the opponent's moves.
switchPlayerNoPass(s) ==
    LET opponent == Opponent(s.currentPlayer)
    IN  IF Len(getValidMoves(s.board, opponent)) > 0
           \/ Len(getValidMoves(s.board, s.currentPlayer)) > 0
        THEN checkAndTriggerAIMove(drawBoard([s EXCEPT !.currentPlayer = opponent]))
        ELSE endGame(s)

switchPlayer(s) ==
    LET opponent == Opponent(s.currentPlayer)
    IN  IF Len(getValidMoves(s.board, opponent)) > 0
        THEN checkAndTriggerAIMove(drawBoard([s EXCEPT !.currentPlayer = opponent]))
        ELSE IF Len(getValidMoves(s.board, s.currentPlayer)) > 0
             THEN checkAndTriggerAIMove(drawBoard(s))
             ELSE endGame(s)

placePieceAndSwitchPlayer(s, row, col) ==
    IF ReturnsNull(getFlippablePieces(s.board, s.currentPlayer, row, col), s.board, row, col)
    THEN s
    ELSE switchPlayer([s EXCEPT !.board = getResultingBoard(s.board, s.currentPlayer, row, col)])

handleCellClick(s, row, col) ==
    IF ~isCurrentPlayerHuman(s)
    THEN s
    ELSE IF isValidMove(s.board, s.currentPlayer, row, col)
         THEN placePieceAndSwitchPlayer(s, row, col)
         ELSE s

\* aiPlayers = {}: a call of loadAIPlayer that waits for createNNAI keeps the
\* object aiPlayers was, and will store its AI there.
Orphaned(ts) ==
    [i \in DOMAIN ts |-> IF ts[i].pc = "loading" THEN [ts[i] EXCEPT !.orphan = TRUE] ELSE ts[i]]

\* initGame, with mode the value of gameModeSelect.
initGame(s, mode) ==
    checkAndTriggerAIMove(drawBoard(
        [s EXCEPT !.board = InitBoard, !.currentPlayer = BLACK, !.isAIThinking = FALSE,
                  !.gameResult = "", !.aiPlayers = {}, !.tasks = Orphaned(s.tasks),
                  !.gameMode = mode]))

Remove(seq, i) == SubSeq(seq, 1, i - 1) \o SubSeq(seq, i + 1, Len(seq))

\* The end of aiMove, after its last await, for the i-th of the waiting calls.
Finish(s, i, move) ==
    LET woken == [s EXCEPT !.tasks = Remove(s.tasks, i), !.gameResult = "",
                           !.isAIThinking = FALSE]
    IN  IF move # null /\ move # undefined
        THEN placePieceAndSwitchPlayer(woken, move.row, move.col)
        ELSE switchPlayer(woken)

\* aiMove from currentAI.isReady() on, aiPlayers[aiKey] being ready: the
\* classic AI answers at once; the neural one returns null at once without a
\* legal move and waits for session.run otherwise.
Think(s, i, aiKey, results) ==
    IF AIType(aiKey) = "classic"
    THEN Finish(s, i, ClassicMove(s.board, s.currentPlayer))
    ELSE IF Len(getValidMoves(s.board, s.currentPlayer)) = 0
         THEN Finish(s, i, null)
         ELSE [s EXCEPT !.tasks[i] =
                   Task("inferring", aiKey, FALSE,
                        NNfindBestMove(TRUE, s.board, s.currentPlayer, results))]

\* const aiKey = currentPlayer === BLACK ? aiSelectorBlack.value : ...
SelectedAI(s) == IF s.currentPlayer = BLACK THEN s.aiSelectorBlack ELSE s.aiSelectorWhite

\* aiMove from the timer to its next await or its end.
AfterTimer(s, i, results) ==
    LET aiKey == SelectedAI(s)
    IN  IF aiKey \in s.aiPlayers
        THEN Think(s, i, aiKey, results)
        ELSE IF AIType(aiKey) = "classic"
             THEN Think([s EXCEPT !.aiPlayers = s.aiPlayers \cup {aiKey}], i, aiKey, results)
             ELSE [s EXCEPT !.tasks[i] = Task("loading", aiKey, FALSE, null)]

\* loadAIPlayer from the end of createNNAI on, and aiMove after it.
AfterLoad(s, i, created, results) ==
    LET aiKey == s.tasks[i].aiKey
        stored == IF created /\ ~s.tasks[i].orphan
                  THEN s.aiPlayers \cup {aiKey}
                  ELSE s.aiPlayers
        loaded == IF created /\ aiKey \in stored THEN stored ELSE stored \ {aiKey}
        after == [s EXCEPT !.aiPlayers = loaded,
                           !.gameResult = IF created /\ aiKey \in stored
                                          THEN s.gameResult ELSE "error"]
    IN  IF aiKey \in loaded
        THEN Think(after, i, aiKey, results)
        ELSE Finish(after, i, null)

\* The classic AI is asked for a move by the step of the i-th waiting call.
AsksClassic(s, i) ==
    \/ s.tasks[i].pc = "timer" /\ SelectedAI(s) = "classic"
    \/ s.tasks[i].pc = "loading" /\ s.tasks[i].aiKey = "classic"

\* The classic AI searches in the first moves of a game, and on a finished
\* board, where its search has nothing to try.
WithinClassicBound(s, i) ==
    AsksClassic(s, i) =>
        \/ TotalPieces(s.board) - 4 < MaxClassicMoves
        \/ IsLeafNode(s.board, s.currentPlayer, AIDepth)

WithinResetBound ==
    /\ TotalPieces(board) - 4 <= MaxRaceMoves
    /\ Len(tasks) < MaxTasks

\* Whether createNNAI gives a session: it fails in the first moves only.
Created == IF TotalPieces(board) - 4 <= MaxFailMoves THEN BOOLEAN ELSE {TRUE}

WithinRaceBound ==
    Len(tasks) >= 2 => TotalPieces(board) - 4 <= MaxRaceMoves

\* The page is loaded: initializeAISelectors and initGame.  The mode is the
\* value gameModeSelect has in the page.
InitDriver ==
    /\ call = OpeningMoves
    /\ player = BLACK
    /\ \E mode \in GameModes : Is(initGame(ScriptLoaded, mode))

\* The user clicks a cell that has a listener.
CellClick(row, col) ==
    /\ [row |-> row, col |-> col] \in listeners \cap PlayCells
    /\ Len(tasks) < MaxTasks
    /\ WithinRaceBound
    /\ Becomes(handleCellClick(Script, row, col))

\* The user clicks the reset button.
ResetClick ==
    /\ WithinResetBound
    /\ Becomes(initGame(Script, gameMode))

\* The user chooses another game mode.
GameModeChange(mode) ==
    /\ WithinResetBound
    /\ mode # gameMode
    /\ Becomes(initGame(Script, mode))

\* The user chooses another AI for Black or for White; the selectors are
\* shown in the modes updateModeUI shows them in.
AISelectorBlackChange(key) ==
    /\ WithinResetBound
    /\ gameMode = "ai-vs-ai"
    /\ key # aiSelectorBlack
    /\ Becomes(initGame([Script EXCEPT !.aiSelectorBlack = key], gameMode))

AISelectorWhiteChange(key) ==
    /\ WithinResetBound
    /\ gameMode \in {"human-vs-ai", "ai-vs-ai"}
    /\ key # aiSelectorWhite
    /\ Becomes(initGame([Script EXCEPT !.aiSelectorWhite = key], gameMode))

\* The timer of the i-th waiting call of aiMove fires.
TimerFires(i) ==
    /\ tasks[i].pc = "timer"
    /\ WithinRaceBound
    /\ WithinClassicBound(Script, i)
    /\ \E results \in PlayResults(board, currentPlayer) :
           Becomes(AfterTimer(Script, i, results))

\* createNNAI of the i-th waiting call ends, with a session or with an error.
LoadEnds(i) ==
    /\ tasks[i].pc = "loading"
    /\ WithinRaceBound
    /\ \E created \in Created, results \in PlayResults(board, currentPlayer) :
           Becomes(AfterLoad(Script, i, created, results))

\* session.run of the i-th waiting call ends.
InferenceEnds(i) ==
    /\ tasks[i].pc = "inferring"
    /\ WithinRaceBound
    /\ Becomes(Finish(Script, i, tasks[i].move))

NextDriver ==
    \/ \E m \in listeners : CellClick(m.row, m.col)
    \/ ResetClick
    \/ \E mode \in GameModes : GameModeChange(mode)
    \/ \E key \in AIKeys : AISelectorBlackChange(key)
    \/ \E key \in AIKeys : AISelectorWhiteChange(key)
    \/ \E i \in DOMAIN tasks : TimerFires(i)
    \/ \E i \in DOMAIN tasks : LoadEnds(i)
    \/ \E i \in DOMAIN tasks : InferenceEnds(i)

SpecDriver == InitDriver /\ [][NextDriver]_vars

(***************************************************************************)
(* Passing and the end of the game                                         *)
(***************************************************************************)
\* The step applies a move: the board changes, and not to the board of a new
\* game.  The player who moves is currentPlayer before the step.
MoveApplied == board' # board /\ board' # InitBoard

HasMove(b, p) == Len(getValidMoves(b, p)) > 0

\* The board the move gives is one getResultingBoard gives for the mover.
ResultOfOneMove ==
    \E row \in 0 .. (BOARD_SIZE - 1), col \in 0 .. (BOARD_SIZE - 1) :
        /\ ~ReturnsNull(getFlippablePieces(board, currentPlayer, row, col), board, row, col)
        /\ board' = getResultingBoard(board, currentPlayer, row, col)

\* C14: after a move is applied, when the opponent of the mover has no legal
\* move on the new board and the mover has one, the turn stays with the
\* mover, the board is the board the move gave, and no end of the game is
\* shown.
C14_PassKeepsTurn ==
    [][(/\ MoveApplied
        /\ ~HasMove(board', Opponent(currentPlayer))
        /\ HasMove(board', currentPlayer))
       => /\ currentPlayer' = currentPlayer
          /\ ResultOfOneMove
          /\ gameResult' \notin EndResults]_vars

\* A game in which the opponent has just passed: the turn is with a player
\* whose opponent has no legal move, and the game goes on.
C14_Witness ==
    /\ TotalPieces(board) > 4
    /\ gameResult \notin EndResults
    /\ HasMove(board, currentPlayer)
    /\ ~HasMove(board, Opponent(currentPlayer))

C18_CurrentPlayerHasMove ==
    gameResult \notin EndResults => HasMove(board, currentPlayer)

\* The step is initGame: a new game.
NewGame ==
    \/ ResetClick
    \/ \E mode \in GameModes : GameModeChange(mode)
    \/ \E key \in AIKeys : AISelectorBlackChange(key)
    \/ \E key \in AIKeys : AISelectorWhiteChange(key)

\* C19: within a game the turn goes to the other player without a change of
\* the board only when the player to move has no legal move; an AI that
\* returns no move while its side has legal moves keeps the turn.
C19_TurnKeptWithLegalMoves ==
    [][(/\ currentPlayer' # currentPlayer
        /\ board' = board
        /\ HasMove(board, currentPlayer))
       => NewGame]_vars

\* C20: at most one call of aiMove is in progress: at most one waits at its
\* timer, at the load of its AI or at its inference.
C20_AtMostOneAiMove == Len(tasks) <= 1

(***************************************************************************)
(* Whose moves are applied                                                 *)
(***************************************************************************)
\* The step resumes a waiting call of aiMove.
AIStep ==
    \E i \in DOMAIN tasks : TimerFires(i) \/ LoadEnds(i) \/ InferenceEnds(i)

\* The step is a click of the user on a cell.
HumanStep == \E m \in listeners : CellClick(m.row, m.col)

\* The colour p is played by an AI in the mode.
AIControlled(mode, p) ==
    \/ mode = "ai-vs-ai"
    \/ mode = "human-vs-ai" /\ p = WHITE

\* C21: a call of aiMove applies its move only while the current player is
\* played by an AI in the current game mode, also when it resumes after a
\* reset; and a click of a human is applied only while no call of aiMove is
\* waiting.
C21_MovesByTheirOwner ==
    [][/\ (MoveApplied /\ AIStep) => AIControlled(gameMode, currentPlayer)
       /\ (MoveApplied /\ HumanStep) => tasks = <<>>]_vars

(***************************************************************************)
(* The pieces on the board                                                 *)
(***************************************************************************)
\* C22: from the four pieces of initGame on, every move that is applied adds
\* exactly one piece: no occupied cell becomes Empty, the placed piece goes
\* to a cell that was Empty, and the board never holds more than its 64
\* cells, so that at most 60 moves are applied in a game.
C22_OnePieceAMove ==
    [][MoveApplied =>
          /\ TotalPieces(board') = TotalPieces(board) + 1
          /\ \A m \in Cells : board[m.row][m.col] # EMPTY => board'[m.row][m.col] # EMPTY
          /\ TotalPieces(board') - TotalPieces(InitBoard) <= BOARD_SIZE * BOARD_SIZE - 4]_vars

====
